---- MODULE Spec2Model ----
(***************************************************************************)
(* The time-windowed data view of the BatteryHub dashboard: the two        *)
(* BatteryChart variants of BatteryChart.tsx (the render-derived window    *)
(* and the effect-driven window), RawBatteryChart with its custom          *)
(* timestamp parser and time-of-day filter, and the date arithmetic of     *)
(* the date-fns calls they make.                                           *)
(*                                                                         *)
(* A timestamp string is a sequence of one-character strings, so that      *)
(* split, padStart, the template literal and the parse act on the text.    *)
(* A Date is [valid, t]: t counts seconds of local time, valid = FALSE is  *)
(* JavaScript's Invalid Date.                                              *)
(***************************************************************************)
EXTENDS Integers, Sequences, FiniteSets, TLC

Max(a, b) ==
    IF a >= b THEN a ELSE b

Min(a, b) ==
    IF a <= b THEN a ELSE b

(***************************************************************************)
(* Texts.                                                                  *)
(***************************************************************************)
\* "2024-01-01T00:00:00"
IsoA ==
    <<"2","0","2","4","-","0","1","-","0","1","T","0","0",":","0","0",":","0","0">>
\* "2024-01-01T08:00:00"
IsoB ==
    <<"2","0","2","4","-","0","1","-","0","1","T","0","8",":","0","0",":","0","0">>
\* "2024-01-01T23:59:59"
IsoC ==
    <<"2","0","2","4","-","0","1","-","0","1","T","2","3",":","5","9",":","5","9">>
\* "2024-01-02T08:00:00"
IsoD ==
    <<"2","0","2","4","-","0","1","-","0","2","T","0","8",":","0","0",":","0","0">>
\* "2024-01-03T14:05:00"
IsoE ==
    <<"2","0","2","4","-","0","1","-","0","3","T","1","4",":","0","5",":","0","0">>
\* "2024-01-04" (a date without a time)
IsoDateOnly ==
    <<"2","0","2","4","-","0","1","-","0","4">>
\* "not-a-date"
NotADate ==
    <<"n","o","t","-","a","-","d","a","t","e">>
\* "Mon Jan 01 08:00:00 GMT 2024"
CusA ==
    <<"M","o","n"," ","J","a","n"," ","0","1"," ","0","8",":","0","0",":","0","0"," ","G","M","T"," ","2","0","2","4">>
\* "Mon Jan 01 23:59:59 GMT 2024"
CusB ==
    <<"M","o","n"," ","J","a","n"," ","0","1"," ","2","3",":","5","9",":","5","9"," ","G","M","T"," ","2","0","2","4">>
\* "Tue Jan 02 00:00:30 GMT 2024"
CusC ==
    <<"T","u","e"," ","J","a","n"," ","0","2"," ","0","0",":","0","0",":","3","0"," ","G","M","T"," ","2","0","2","4">>
\* "Wed Jan 3 14:05:00 GMT 2024" (the day is not zero-padded)
CusD ==
    <<"W","e","d"," ","J","a","n"," ","3"," ","1","4",":","0","5",":","0","0"," ","G","M","T"," ","2","0","2","4">>
\* "Mon Jan 01 08:00:00 +0000 2024" (six tokens, none holds a "T")
CusNoT ==
    <<"M","o","n"," ","J","a","n"," ","0","1"," ","0","8",":","0","0",":","0","0"," ","+","0","0","0","0"," ","2","0","2","4">>
\* "Wed Jan 03 14:05:00 2024" (five tokens)
CusFive ==
    <<"W","e","d"," ","J","a","n"," ","0","3"," ","1","4",":","0","5",":","0","0"," ","2","0","2","4">>
\* "Wed Foo 03 14:05:00 GMT 2024" (six tokens, no such month)
CusBadMonth ==
    <<"W","e","d"," ","F","o","o"," ","0","3"," ","1","4",":","0","5",":","0","0"," ","G","M","T"," ","2","0","2","4">>
\* "undefined", what a template literal makes of a missing table entry
undefinedText ==
    <<"u","n","d","e","f","i","n","e","d">>

DigitChars ==
    <<"0","1","2","3","4","5","6","7","8","9">>

IsDigit(c) ==
    \E i \in 1..10 : DigitChars[i] = c

DigitVal(c) ==
    (CHOOSE i \in 1..10 : DigitChars[i] = c) - 1

AllDigits(s) ==
    Len(s) > 0 /\ \A i \in 1..Len(s) : IsDigit(s[i])

\* Number(s) of a string of decimal digits
RECURSIVE Number(_)
Number(s) ==
    IF Len(s) = 0 THEN 0
    ELSE 10 * Number(SubSeq(s, 1, Len(s) - 1)) + DigitVal(s[Len(s)])

\* two decimal digits, as format's HH, mm and dd print them
TwoDigits(n) ==
    <<DigitChars[(n \div 10) + 1], DigitChars[(n % 10) + 1]>>

\* String.prototype.split(sep) for a one-character separator
RECURSIVE split(_, _)
split(s, sep) ==
    IF \E i \in 1..Len(s) : s[i] = sep
    THEN LET i == CHOOSE k \in 1..Len(s) :
                    s[k] = sep /\ \A j \in 1..(k - 1) : s[j] # sep
         IN  <<SubSeq(s, 1, i - 1)>> \o split(SubSeq(s, i + 1, Len(s)), sep)
    ELSE <<s>>

\* String.prototype.padStart(n, c) for a one-character pad
RECURSIVE padStart(_, _, _)
padStart(s, n, c) ==
    IF Len(s) >= n THEN s ELSE padStart(<<c>> \o s, n, c)

\* a test that finds its needle in every string
includes_always(s, c) ==
    TRUE

\* String.prototype.includes(c) for a one-character needle
includes(s, c) ==
    \E i \in 1..Len(s) : s[i] = c

(***************************************************************************)
(* Dates.                                                                  *)
(***************************************************************************)
SecondsPerDay ==
    24 * 60 * 60

InvalidDate ==
    [valid |-> FALSE, t |-> 0]

DateAt(t) ==
    [valid |-> TRUE, t |-> t]

IsLeap(y) ==
    (y % 4 = 0 /\ y % 100 # 0) \/ y % 400 = 0

DaysInMonth(y, m) ==
    IF m = 2 THEN (IF IsLeap(y) THEN 29 ELSE 28)
    ELSE IF m \in {4, 6, 9, 11} THEN 30 ELSE 31

\* days of the civil date y-m-d since 1970-01-01
DaysFromCivil(y, m, d) ==
    LET yy  == IF m <= 2 THEN y - 1 ELSE y
        era == yy \div 400
        yoe == yy - era * 400
        mp  == IF m > 2 THEN m - 3 ELSE m + 9
        doy == (153 * mp + 2) \div 5 + d - 1
        doe == yoe * 365 + yoe \div 4 - yoe \div 100 + doy
    IN  era * 146097 + doe - 719468

\* the local instant of a civil date and time
Instant(y, m, d, hh, mi, ss) ==
    DaysFromCivil(y, m, d) * SecondsPerDay + hh * 3600 + mi * 60 + ss

DayOf(t) ==
    t \div SecondsPerDay

getHours(t) ==
    (t % SecondsPerDay) \div 3600

getMinutes(t) ==
    (t % 3600) \div 60

\* new Date(text) for a date-time text without zone, YYYY-MM-DDTHH:mm:ss, read
\* as local time, and for a date without time, YYYY-MM-DD, read as midnight UTC
\* (the model's clock is a zone at UTC offset 0, where that is local midnight);
\* every other text handed to it is digit-free or has an unknown month word and
\* gives Invalid Date
NewDate(s) ==
    IF /\ Len(s) = 19
       /\ s[5] = "-" /\ s[8] = "-" /\ s[11] = "T" /\ s[14] = ":" /\ s[17] = ":"
       /\ \A i \in {1, 2, 3, 4, 6, 7, 9, 10, 12, 13, 15, 16, 18, 19} : IsDigit(s[i])
    THEN LET y  == Number(SubSeq(s, 1, 4))
             m  == Number(SubSeq(s, 6, 7))
             d  == Number(SubSeq(s, 9, 10))
             hh == Number(SubSeq(s, 12, 13))
             mi == Number(SubSeq(s, 15, 16))
             ss == Number(SubSeq(s, 18, 19))
         IN  IF /\ m \in 1..12 /\ d >= 1 /\ d <= DaysInMonth(y, m)
                /\ hh <= 23 /\ mi <= 59 /\ ss <= 59
             THEN DateAt(Instant(y, m, d, hh, mi, ss))
             ELSE InvalidDate
    ELSE IF /\ Len(s) = 10
            /\ s[5] = "-" /\ s[8] = "-"
            /\ \A i \in {1, 2, 3, 4, 6, 7, 9, 10} : IsDigit(s[i])
    THEN LET y == Number(SubSeq(s, 1, 4))
             m == Number(SubSeq(s, 6, 7))
             d == Number(SubSeq(s, 9, 10))
         IN  IF m \in 1..12 /\ d >= 1 /\ d <= DaysInMonth(y, m)
             THEN DateAt(Instant(y, m, d, 0, 0, 0))
             ELSE InvalidDate
    ELSE InvalidDate

\* date-fns parseISO on the texts of the model
parseISO(s) ==
    NewDate(s)

isValid(d) ==
    d.valid

startOfDay(d) ==
    IF d.valid THEN DateAt(DayOf(d.t) * SecondsPerDay) ELSE InvalidDate

endOfDay(d) ==
    IF d.valid THEN DateAt(DayOf(d.t) * SecondsPerDay + SecondsPerDay - 1)
    ELSE InvalidDate

setMinutes(d, mi) ==
    IF d.valid THEN DateAt(d.t - getMinutes(d.t) * 60 + mi * 60) ELSE InvalidDate

setHours(d, hh) ==
    IF d.valid THEN DateAt(d.t - getHours(d.t) * 3600 + hh * 3600) ELSE InvalidDate

\* date-fns isWithinInterval: "true", "false" or "throw".  Up to version 2 an
\* interval whose start is not <= its end (or is invalid) throws RangeError;
\* from version 3 the two ends are sorted and nothing throws.
isWithinInterval(d, start, end, sorts) ==
    IF ~start.valid \/ ~end.valid
    THEN (IF sorts THEN "false" ELSE "throw")
    ELSE IF start.t > end.t /\ ~sorts THEN "throw"
    ELSE IF ~d.valid THEN "false"
    ELSE IF d.t >= Min(start.t, end.t) /\ d.t <= Max(start.t, end.t) THEN "true"
    ELSE "false"

\* date-fns format(d, "HH:mm"): throws RangeError on an Invalid Date
formatHHmm(d) ==
    IF d.valid
    THEN [threw |-> FALSE,
          text |-> TwoDigits(getHours(d.t)) \o <<":">> \o TwoDigits(getMinutes(d.t))]
    ELSE [threw |-> TRUE, text |-> <<>>]

\* the civil date <<y, m, d>> of a day count since 1970-01-01
CivilFromDays(z0) ==
    LET z   == z0 + 719468
        era == z \div 146097
        doe == z - era * 146097
        yoe == (doe - doe \div 1460 + doe \div 36524 - doe \div 146096) \div 365
        doy == doe - (365 * yoe + yoe \div 4 - yoe \div 100)
        mp  == (5 * doy + 2) \div 153
        d   == doy - (153 * mp + 2) \div 5 + 1
        m   == IF mp < 10 THEN mp + 3 ELSE mp - 9
        y   == yoe + era * 400 + (IF m <= 2 THEN 1 ELSE 0)
    IN  <<y, m, d>>

MonthNames ==
    << <<"J","a","n">>, <<"F","e","b">>, <<"M","a","r">>, <<"A","p","r">>,
       <<"M","a","y">>, <<"J","u","n">>, <<"J","u","l">>, <<"A","u","g">>,
       <<"S","e","p">>, <<"O","c","t">>, <<"N","o","v">>, <<"D","e","c">> >>

\* date-fns format(d, "dd")
formatdd(d) ==
    IF d.valid
    THEN [threw |-> FALSE, text |-> TwoDigits(CivilFromDays(DayOf(d.t))[3])]
    ELSE [threw |-> TRUE, text |-> <<>>]

\* date-fns format(d, "MMM")
formatMMM(d) ==
    IF d.valid
    THEN [threw |-> FALSE, text |-> MonthNames[CivilFromDays(DayOf(d.t))[2]]]
    ELSE [threw |-> TRUE, text |-> <<>>]

\* date-fns differenceInDays(later, earlier): the full days between them
differenceInDays(later, earlier) ==
    (later.t - earlier.t) \div SecondsPerDay

(***************************************************************************)
(* parseCustomTimestamp of RawBatteryChart.tsx.                            *)
(***************************************************************************)
\* a month table that counts from 00, as Date's month index does
monthMap_zeroBased(key) ==
    IF \E i \in 1..12 : MonthNames[i] = key
    THEN TwoDigits((CHOOSE i \in 1..12 : MonthNames[i] = key) - 1)
    ELSE undefinedText

\* monthMap[key]: the two-digit month, or undefined for a key not in the table
monthMap(key) ==
    IF \E i \in 1..12 : MonthNames[i] = key
    THEN TwoDigits(CHOOSE i \in 1..12 : MonthNames[i] = key)
    ELSE undefinedText

\* nw is the instant new Date() gives when the parser falls back
parseCustomTimestamp(timestamp, nw) ==
    LET parts == split(timestamp, " ")
    IN  IF Len(parts) = 6
        THEN LET month == monthMap(parts[2])
                 day   == padStart(parts[3], 2, "0")
                 time  == parts[4]
                 year  == parts[6]
             IN  NewDate(year \o <<"-">> \o month \o <<"-">> \o day \o <<"T">> \o time)
        ELSE DateAt(nw)

(***************************************************************************)
(* Bounds and inputs.                                                      *)
(***************************************************************************)
\* the longest data sequence a chart is given
MaxLen ==
    60

\* a data sequence shorter than the zoom floor
ShortLen ==
    5

\* the longest data sequence RawBatteryChart is given
RawMaxLen ==
    2

\* the days the calendar offers, from 2024-01-01 on
CalendarSpan ==
    2

Undefined ==
    0 - 1

\* the texts a record's time field can hold; a record holds the index
Texts ==
    <<IsoA, IsoB, IsoC, IsoD, IsoE, NotADate,
      CusA, CusB, CusC, CusD, CusFive, CusBadMonth, IsoDateOnly, CusNoT>>

TextIds ==
    1..Len(Texts)

IdOf(text) ==
    CHOOSE i \in TextIds : Texts[i] = text

\* the date-time texts of the charts, ascending by instant
ChartPool ==
    <<IdOf(IsoA), IdOf(IsoB), IdOf(IsoC), IdOf(IsoD), IdOf(IsoE),
      IdOf(IsoDateOnly)>>

RawPool ==
    <<IdOf(CusA), IdOf(CusB), IdOf(NotADate), IdOf(CusC), IdOf(CusD),
      IdOf(CusFive), IdOf(CusBadMonth), IdOf(IsoE), IdOf(CusNoT)>>

\* n records ascending by time; withBad puts an unparseable record in the middle
ChartData(n, withBad) ==
    [i \in 1..n |->
        [time |-> IF withBad /\ i = (n + 1) \div 2
                  THEN IdOf(NotADate)
                  ELSE ChartPool[((i - 1) * Len(ChartPool)) \div n + 1],
         soc  |-> i]]

ChartLens ==
    {0, ShortLen, MaxLen}

\* the data sequences a chart is given: empty, short and long ones of parseable
\* records, and a short one with an unparseable record
ChartDataSets ==
    {ChartData(n, FALSE) : n \in ChartLens} \cup {ChartData(ShortLen, TRUE)}

\* n records taken from the raw pool, starting after its k-th text
RawData(n, k) ==
    [i \in 1..n |-> [time |-> RawPool[((k + i - 1) % Len(RawPool)) + 1], soc |-> i]]

RawDataSets ==
    {RawData(n, k) : n \in 0..RawMaxLen, k \in 0..(Len(RawPool) - 1)}

\* the days of the calendar, as the local midnight the day picker hands over
CalendarDays ==
    {NewDate(IsoA).t + k * SecondsPerDay : k \in 0..(CalendarSpan - 1)}

\* the longer ranges of the day picker, as days between the first and last date
LongSpans ==
    {3, 7, 8, 31, 32, 40}

NoDate ==
    [from |-> Undefined, to |-> Undefined]

\* the DateRange values of the day picker in range mode: nothing, a single
\* date, or from <= to
DateChoices ==
    {NoDate}
    \cup {[from |-> d, to |-> Undefined] : d \in CalendarDays}
    \cup {[from |-> p[1], to |-> p[2]] :
             p \in {q \in CalendarDays \X CalendarDays : q[1] <= q[2]}}

\* the day picker's ranges that start on the first day and span LongSpans days
LongDateChoices ==
    {[from |-> NewDate(IsoA).t, to |-> NewDate(IsoA).t + k * SecondsPerDay] :
        k \in LongSpans}

\* the values of an <input type="time">: empty, or HH:mm
TimeChoices ==
    {<<>>,
     <<"0","0",":","0","0">>,
     <<"0","8",":","0","0">>,
     <<"1","4",":","0","5">>,
     <<"2","3",":","5","9">>}

\* what new Date() can give: an instant inside the calendar's days, one outside
NowChoices ==
    {Instant(2024, 1, 2, 12, 34, 56), Instant(2024, 1, 20, 9, 0, 0)}

\* the parses of the pool, computed once
ParsedISO ==
    [i \in TextIds |-> parseISO(Texts[i])]

ParsedNewDate ==
    [i \in TextIds |-> NewDate(Texts[i])]

ParsedCustom ==
    [nw \in NowChoices |-> [i \in TextIds |-> parseCustomTimestamp(Texts[i], nw)]]

Row(item, label) ==
    [time |-> item.time, soc |-> item.soc, displayTime |-> label]

\* a slice that takes the element at its end index too
slice_inclusiveEnd(rows, a, b) ==
    SubSeq(rows, a + 1, Min(b + 1, Len(rows)))

\* Array.prototype.slice(a, b) with 0 <= a
slice(rows, a, b) ==
    SubSeq(rows, a + 1, Min(b, Len(rows)))

(***************************************************************************)
(* filteredData of the three components.  The result is [threw, rows]:     *)
(* threw says that an exception left the computation.                      *)
(***************************************************************************)
\* from and to of the first variant's date filter
V1_interval(date_) ==
    [from |-> startOfDay(DateAt(date_.from)),
     to   |-> IF date_.to # Undefined THEN endOfDay(DateAt(date_.to))
              ELSE endOfDay(DateAt(date_.from))]

\* BatteryChart, first variant: parseISO, labels outside any try
V1_filteredData(data_, date_, sorts) ==
    IF Len(data_) = 0 THEN [threw |-> FALSE, rows |-> <<>>]
    ELSE
    LET from == V1_interval(date_).from
        to   == V1_interval(date_).to
        keep(item) == isWithinInterval(ParsedISO[item.time], from, to, sorts) = "true"
        processedData == IF date_.from # Undefined THEN SelectSeq(data_, keep) ELSE data_
        label(item) == formatHHmm(ParsedISO[item.time])
    IN  IF \E i \in 1..Len(processedData) : label(processedData[i]).threw
        THEN [threw |-> TRUE, rows |-> <<>>]
        ELSE [threw |-> FALSE,
              rows |-> [i \in 1..Len(processedData) |->
                          Row(processedData[i], label(processedData[i]).text)]]

\* a span table that turns to the month name at 31 days
V2_formattedTime_monthFromThirtyOne(itemDate, daysDifference) ==
    IF daysDifference = 0 THEN formatHHmm(itemDate)
    ELSE IF daysDifference <= 7 THEN formatHHmm(itemDate)
    ELSE IF daysDifference <= 30 THEN formatdd(itemDate)
    ELSE formatMMM(itemDate)

\* the label of a kept record of the second variant when an interval is active
V2_formattedTime(itemDate, daysDifference) ==
    IF daysDifference = 0 THEN formatHHmm(itemDate)
    ELSE IF daysDifference <= 7 THEN formatHHmm(itemDate)
    ELSE IF daysDifference <= 31 THEN formatdd(itemDate)
    ELSE formatMMM(itemDate)

\* an interval that ends at the midnight that starts the selected end date
V2_interval_cutAtMidnight(date_) ==
    [from |-> startOfDay(DateAt(date_.from)),
     to   |-> IF date_.to # Undefined THEN startOfDay(DateAt(date_.to))
              ELSE endOfDay(DateAt(date_.from))]

\* from and to of the second variant's date filter
V2_interval(date_) ==
    [from |-> startOfDay(DateAt(date_.from)),
     to   |-> IF date_.to # Undefined THEN endOfDay(DateAt(date_.to))
              ELSE endOfDay(DateAt(date_.from))]

\* BatteryChart, second variant: new Date and isValid, every label in a try
V2_filteredData(data_, date_, sorts) ==
    IF Len(data_) = 0 THEN [threw |-> FALSE, rows |-> <<>>]
    ELSE
    IF date_.from # Undefined
    THEN
        LET from == V2_interval(date_).from
            to   == V2_interval(date_).to
            daysDifference == differenceInDays(to, from)
            keep(item) ==
                LET itemDate == ParsedNewDate[item.time]
                IN  isValid(itemDate)
                    /\ isWithinInterval(itemDate, from, to, sorts) = "true"
            processedData == SelectSeq(data_, keep)
            label(item) ==
                LET itemDate == ParsedNewDate[item.time]
                IN  IF ~isValid(itemDate) THEN Texts[item.time]
                    ELSE LET f == V2_formattedTime(itemDate, daysDifference)
                         IN  IF f.threw THEN Texts[item.time] ELSE f.text
        IN  [threw |-> FALSE,
             rows |-> [i \in 1..Len(processedData) |->
                         Row(processedData[i], label(processedData[i]))]]
    ELSE
        LET label(item) ==
                LET itemDate == ParsedNewDate[item.time]
                IN  IF ~isValid(itemDate) THEN Texts[item.time]
                    ELSE IF includes(Texts[item.time], "T")
                         THEN (LET f == formatHHmm(itemDate)
                               IN  IF f.threw THEN Texts[item.time] ELSE f.text)
                         ELSE Texts[item.time]
        IN  [threw |-> FALSE,
             rows |-> [i \in 1..Len(data_) |-> Row(data_[i], label(data_[i]))]]

\* from and to of RawBatteryChart's date filter
Raw_interval(dateRange_) ==
    [from |-> startOfDay(DateAt(dateRange_.from)),
     to   |-> IF dateRange_.to # Undefined THEN endOfDay(DateAt(dateRange_.to))
              ELSE endOfDay(DateAt(dateRange_.from))]

\* the date filter of RawBatteryChart
Raw_dateFilter(data_, dateRange_, nw, sorts) ==
    IF dateRange_.from # Undefined
    THEN LET from == Raw_interval(dateRange_).from
             to   == Raw_interval(dateRange_).to
             keep(item) ==
                 isWithinInterval(ParsedCustom[nw][item.time], from, to, sorts) = "true"
         IN  SelectSeq(data_, keep)
    ELSE data_

\* whether the time-of-day filter of RawBatteryChart keeps a record
Raw_timeKeeps(item, timeRange_, nw, sorts) ==
    LET startParts   == split(timeRange_.start, ":")
        endParts     == split(timeRange_.end, ":")
        startHours   == Number(startParts[1])
        startMinutes == Number(startParts[2])
        endHours     == Number(endParts[1])
        endMinutes   == Number(endParts[2])
        itemDate  == ParsedCustom[nw][item.time]
        itemTime  == setHours(setMinutes(itemDate, 0), 0)
        startTime == setHours(setMinutes(itemDate, startMinutes), startHours)
        endTime   == setHours(setMinutes(itemDate, endMinutes), endHours)
    IN  isWithinInterval(itemTime, startTime, endTime, sorts) = "true"

\* the time-of-day filter of RawBatteryChart; an empty bound switches it off
Raw_timeFilter(rows, timeRange_, nw, sorts) ==
    IF Len(timeRange_.start) > 0 /\ Len(timeRange_.end) > 0
    THEN LET keep(item) == Raw_timeKeeps(item, timeRange_, nw, sorts)
         IN  SelectSeq(rows, keep)
    ELSE rows

\* the label RawBatteryChart gives a record
Raw_displayTime(item, nw) ==
    LET f == formatHHmm(ParsedCustom[nw][item.time])
    IN  IF f.threw THEN Texts[item.time] ELSE f.text

Raw_filteredData(data_, dateRange_, timeRange_, nw, sorts) ==
    IF Len(data_) = 0 THEN [threw |-> FALSE, rows |-> <<>>]
    ELSE
    LET processedData ==
            Raw_timeFilter(Raw_dateFilter(data_, dateRange_, nw, sorts),
                           timeRange_, nw, sorts)
    IN  [threw |-> FALSE,
         rows |-> [i \in 1..Len(processedData) |->
                     Row(processedData[i], Raw_displayTime(processedData[i], nw))]]

(***************************************************************************)
(* State.  comp says which component is mounted: "v1" and "v2" are the two *)
(* BatteryChart variants, "raw" is RawBatteryChart.  A state is a          *)
(* committed render of that component.                                     *)
(***************************************************************************)
VARIABLES
    comp,                \* the mounted component
    data,                \* the data prop
    date,                \* date (BatteryChart) or dateRange (RawBatteryChart)
    timeRange,           \* RawBatteryChart: [start, end], texts HH:mm or empty
    zoomLevel,           \* BatteryChart
    scrollIndex,         \* BatteryChart
    maxScrollIndex,      \* second variant: state written by the effect
    clampedScrollIndex,  \* second variant: state written by the effect
    effectPending,       \* second variant: the clamp effect has yet to run
    now,                 \* what new Date() gives
    intervalSorts        \* the date-fns build sorts an interval's ends

vars ==
    <<comp, data, date, timeRange, zoomLevel, scrollIndex, maxScrollIndex,
      clampedScrollIndex, effectPending, now, intervalSorts>>

\* useState(50) of the second variant
DefaultZoom ==
    50

\* the floor of both variants' zoom-in
MinZoom ==
    10

\* the zoom step of the first variant's buttons
V1_ZoomStep ==
    30

\* the zoom step of the second variant's wheel and buttons
V2_ZoomStep ==
    10

DefaultTimeRange ==
    [start |-> <<"0","0",":","0","0">>, end |-> <<"2","3",":","5","9">>]

\* the filteredData component c computes from its props and state
filteredDataOf(c, data_, date_, timeRange_, nw, sorts) ==
    CASE c = "v1" -> V1_filteredData(data_, date_, sorts)
      [] c = "v2" -> V2_filteredData(data_, date_, sorts)
      [] OTHER    -> Raw_filteredData(data_, date_, timeRange_, nw, sorts)

\* the filteredData of the mounted component in the current state
filteredData ==
    filteredDataOf(comp, data, date, timeRange, now, intervalSorts)

filteredLength ==
    Len(filteredData.rows)

\* first variant: derived in the render
V1_maxScrollIndex ==
    Max(0, filteredLength - zoomLevel)

V1_clampedScrollIndex ==
    Min(scrollIndex, V1_maxScrollIndex)

V1_visibleData ==
    slice(filteredData.rows, V1_clampedScrollIndex, V1_clampedScrollIndex + zoomLevel)

\* second variant: sliced with the state the effect wrote
V2_paginatedData ==
    slice(filteredData.rows, clampedScrollIndex, clampedScrollIndex + zoomLevel)

\* the positions the model moves a range input to: its ends and its middle
SliderChoices(maxValue) ==
    {0, maxValue \div 2, maxValue}

InitV1 ==
    /\ comp = "v1"
    /\ data \in ChartDataSets
    /\ date = NoDate
    /\ timeRange = DefaultTimeRange
    /\ zoomLevel = Len(data)
    /\ scrollIndex = 0
    /\ maxScrollIndex = 0
    /\ clampedScrollIndex = 0
    /\ effectPending = FALSE
    /\ now = CHOOSE n \in NowChoices : \A m \in NowChoices : n <= m
    /\ intervalSorts = FALSE

InitV2 ==
    /\ comp = "v2"
    /\ data \in ChartDataSets
    /\ date = NoDate
    /\ timeRange = DefaultTimeRange
    /\ zoomLevel = DefaultZoom
    /\ scrollIndex = 0
    /\ maxScrollIndex = 0
    /\ clampedScrollIndex = 0
    /\ effectPending = TRUE
    /\ now = CHOOSE n \in NowChoices : \A m \in NowChoices : n <= m
    /\ intervalSorts = FALSE

InitRaw ==
    /\ comp = "raw"
    /\ data \in RawDataSets
    /\ date = NoDate
    /\ timeRange = DefaultTimeRange
    /\ zoomLevel = 0
    /\ scrollIndex = 0
    /\ maxScrollIndex = 0
    /\ clampedScrollIndex = 0
    /\ effectPending = FALSE
    /\ now \in NowChoices
    /\ intervalSorts \in BOOLEAN

Init ==
    InitV1 \/ InitV2 \/ InitRaw

\* the first variant's render threw: the component is gone, no event reaches it
V1_Mounted ==
    comp = "v1" /\ ~filteredData.threw

V1_ZoomIn ==
    /\ V1_Mounted
    /\ zoomLevel' = Max(MinZoom, zoomLevel - V1_ZoomStep)
    /\ UNCHANGED <<comp, data, date, timeRange, scrollIndex, maxScrollIndex,
                   clampedScrollIndex, effectPending, now, intervalSorts>>

V1_ZoomOut ==
    /\ V1_Mounted
    /\ zoomLevel' = Min(Len(data), zoomLevel + V1_ZoomStep)
    /\ UNCHANGED <<comp, data, date, timeRange, scrollIndex, maxScrollIndex,
                   clampedScrollIndex, effectPending, now, intervalSorts>>

V1_Scroll ==
    /\ V1_Mounted
    /\ \E v \in SliderChoices(V1_maxScrollIndex) : scrollIndex' = v
    /\ UNCHANGED <<comp, data, date, timeRange, zoomLevel, maxScrollIndex,
                   clampedScrollIndex, effectPending, now, intervalSorts>>

V1_SelectDate ==
    /\ V1_Mounted
    /\ \E d \in DateChoices : date' = d
    /\ UNCHANGED <<comp, data, timeRange, zoomLevel, scrollIndex, maxScrollIndex,
                   clampedScrollIndex, effectPending, now, intervalSorts>>

V1_DataArrival ==
    /\ V1_Mounted
    /\ \E ds \in ChartDataSets : data' = ds
    /\ UNCHANGED <<comp, date, timeRange, zoomLevel, scrollIndex, maxScrollIndex,
                   clampedScrollIndex, effectPending, now, intervalSorts>>

\* second variant: a pending effect is flushed before the next update is processed
V2_Idle ==
    comp = "v2" /\ ~effectPending

\* the zoom-in button, and the wheel with deltaY < 0
V2_ZoomIn ==
    /\ V2_Idle
    /\ zoomLevel' = Max(MinZoom, zoomLevel - V2_ZoomStep)
    /\ effectPending' = (zoomLevel' # zoomLevel)
    /\ UNCHANGED <<comp, data, date, timeRange, scrollIndex, maxScrollIndex,
                   clampedScrollIndex, now, intervalSorts>>

\* the zoom-out button, and the wheel with deltaY > 0
V2_ZoomOut ==
    /\ V2_Idle
    /\ zoomLevel' = Min(Len(data), zoomLevel + V2_ZoomStep)
    /\ effectPending' = (zoomLevel' # zoomLevel)
    /\ UNCHANGED <<comp, data, date, timeRange, scrollIndex, maxScrollIndex,
                   clampedScrollIndex, now, intervalSorts>>

\* the range input is rendered only while maxScrollIndex > 0
V2_Scroll ==
    /\ V2_Idle
    /\ maxScrollIndex > 0
    /\ \E v \in SliderChoices(maxScrollIndex) : scrollIndex' = v
    /\ effectPending' = (scrollIndex' # scrollIndex)
    /\ UNCHANGED <<comp, data, date, timeRange, zoomLevel, maxScrollIndex,
                   clampedScrollIndex, now, intervalSorts>>

V2_SelectDate ==
    /\ V2_Idle
    /\ \E d \in DateChoices : date' = d
    /\ effectPending' = (date' # NoDate \/ date # NoDate)
    /\ UNCHANGED <<comp, data, timeRange, zoomLevel, scrollIndex, maxScrollIndex,
                   clampedScrollIndex, now, intervalSorts>>

V2_DataArrival ==
    /\ V2_Idle
    /\ \E ds \in ChartDataSets : data' = ds
    /\ effectPending' = TRUE
    /\ UNCHANGED <<comp, date, timeRange, zoomLevel, scrollIndex, maxScrollIndex,
                   clampedScrollIndex, now, intervalSorts>>

\* a clamp effect that measures the data instead of the filtered sequence
V2_ClampEffect_unfilteredLength ==
    /\ comp = "v2"
    /\ effectPending
    /\ LET maxIndex == Max(0, Len(data) - zoomLevel)
       IN  /\ maxScrollIndex' = maxIndex
           /\ clampedScrollIndex' = Min(scrollIndex, maxIndex)
    /\ UNCHANGED <<comp, data, date, timeRange, zoomLevel, scrollIndex, now,
                   intervalSorts>>
    /\ effectPending' = (\/ data' # data \/ date' # date
                         \/ scrollIndex' # scrollIndex \/ zoomLevel' # zoomLevel)

\* a clamp effect that stores the clamped offset as the requested one
V2_ClampEffect_writesBack ==
    /\ comp = "v2"
    /\ effectPending
    /\ LET maxIndex == Max(0, filteredLength - zoomLevel)
       IN  /\ maxScrollIndex' = maxIndex
           /\ clampedScrollIndex' = Min(scrollIndex, maxIndex)
           /\ scrollIndex' = Min(scrollIndex, maxIndex)
    /\ UNCHANGED <<comp, data, date, timeRange, zoomLevel, now, intervalSorts>>
    /\ effectPending' = (\/ data' # data \/ date' # date
                         \/ scrollIndex' # scrollIndex \/ zoomLevel' # zoomLevel)

\* the clamp effect, run after the render whose dependencies changed; it is due
\* again only if it changed one of its dependencies [filteredData, scrollIndex,
\* zoomLevel], and filteredData is memoized on [data, date]
V2_ClampEffect ==
    /\ comp = "v2"
    /\ effectPending
    /\ LET maxIndex == Max(0, filteredLength - zoomLevel)
       IN  /\ maxScrollIndex' = maxIndex
           /\ clampedScrollIndex' = Min(scrollIndex, maxIndex)
    /\ UNCHANGED <<comp, data, date, timeRange, zoomLevel, scrollIndex, now,
                   intervalSorts>>
    /\ effectPending' = (\/ data' # data \/ date' # date
                         \/ scrollIndex' # scrollIndex \/ zoomLevel' # zoomLevel)

Raw_SelectDateRange ==
    /\ comp = "raw"
    /\ \E d \in DateChoices : date' = d
    /\ UNCHANGED <<comp, data, timeRange, zoomLevel, scrollIndex, maxScrollIndex,
                   clampedScrollIndex, effectPending, now, intervalSorts>>

Raw_SetStartTime ==
    /\ comp = "raw"
    /\ \E v \in TimeChoices : timeRange' = [timeRange EXCEPT !.start = v]
    /\ UNCHANGED <<comp, data, date, zoomLevel, scrollIndex, maxScrollIndex,
                   clampedScrollIndex, effectPending, now, intervalSorts>>

Raw_SetEndTime ==
    /\ comp = "raw"
    /\ \E v \in TimeChoices : timeRange' = [timeRange EXCEPT !.end = v]
    /\ UNCHANGED <<comp, data, date, zoomLevel, scrollIndex, maxScrollIndex,
                   clampedScrollIndex, effectPending, now, intervalSorts>>

Raw_DataArrival ==
    /\ comp = "raw"
    /\ \E ds \in RawDataSets : data' = ds
    /\ UNCHANGED <<comp, date, timeRange, zoomLevel, scrollIndex, maxScrollIndex,
                   clampedScrollIndex, effectPending, now, intervalSorts>>

Next ==
    \/ V1_ZoomIn
    \/ V1_ZoomOut
    \/ V1_Scroll
    \/ V1_SelectDate
    \/ V1_DataArrival
    \/ V2_ZoomIn
    \/ V2_ZoomOut
    \/ V2_Scroll
    \/ V2_SelectDate
    \/ V2_DataArrival
    \/ V2_ClampEffect
    \/ Raw_SelectDateRange
    \/ Raw_SetStartTime
    \/ Raw_SetEndTime
    \/ Raw_DataArrival

Spec ==
    Init /\ [][Next]_vars

(***************************************************************************)
(* The charts under the date and data events alone, with the day picker's  *)
(* longer ranges: what the labels depend on.                               *)
(***************************************************************************)
V1_SelectLongRange ==
    /\ V1_Mounted
    /\ \E d \in LongDateChoices : date' = d
    /\ UNCHANGED <<comp, data, timeRange, zoomLevel, scrollIndex, maxScrollIndex,
                   clampedScrollIndex, effectPending, now, intervalSorts>>

V2_SelectLongRange ==
    /\ V2_Idle
    /\ \E d \in LongDateChoices : date' = d
    /\ effectPending' = TRUE
    /\ UNCHANGED <<comp, data, timeRange, zoomLevel, scrollIndex, maxScrollIndex,
                   clampedScrollIndex, now, intervalSorts>>

SpanInit ==
    InitV1 \/ InitV2

SpanNext ==
    \/ V1_SelectDate
    \/ V1_SelectLongRange
    \/ V1_DataArrival
    \/ V2_SelectDate
    \/ V2_SelectLongRange
    \/ V2_DataArrival
    \/ V2_ClampEffect

SpanSpec ==
    SpanInit /\ [][SpanNext]_vars

(***************************************************************************)
(* The charts' window computation with the scroll handler given any        *)
(* integer: the handler stores Number(e.target.value) as it comes.         *)
(***************************************************************************)
OffsetInputs ==
    {0 - MaxLen, 0 - 1, 0, 1, ShortLen, MaxLen, MaxLen + 1}

V1_SetScrollIndex ==
    /\ V1_Mounted
    /\ \E v \in OffsetInputs : scrollIndex' = v
    /\ UNCHANGED <<comp, data, date, timeRange, zoomLevel, maxScrollIndex,
                   clampedScrollIndex, effectPending, now, intervalSorts>>

V2_SetScrollIndex ==
    /\ V2_Idle
    /\ maxScrollIndex > 0
    /\ \E v \in OffsetInputs : scrollIndex' = v
    /\ effectPending' = (scrollIndex' # scrollIndex)
    /\ UNCHANGED <<comp, data, date, timeRange, zoomLevel, maxScrollIndex,
                   clampedScrollIndex, now, intervalSorts>>

WindowInit ==
    InitV1 \/ InitV2

WindowNext ==
    \/ V1_SetScrollIndex
    \/ V1_ZoomIn
    \/ V1_ZoomOut
    \/ V1_DataArrival
    \/ V2_SetScrollIndex
    \/ V2_ZoomIn
    \/ V2_ZoomOut
    \/ V2_DataArrival
    \/ V2_ClampEffect

WindowSpec ==
    WindowInit /\ [][WindowNext]_vars

(***************************************************************************)
(* BatteryMetricsCards: a component of its data alone.                     *)
(***************************************************************************)
\* the longest data sequence the cards are given
CardsMaxLen ==
    4

\* null, for a soc that is a prediction's
Null ==
    0 - 2

\* the ends of the readings generateFallbackData draws
SocValues ==
    {60, 99}

\* records ascending by time, as fetchBatteryData sorts them and
\* generateFallbackData builds them, with the soc values socs
CardsData(socs) ==
    [i \in 1..Len(socs) |-> [time |-> ChartPool[i], soc |-> socs[i]]]

CardsDataSets ==
    UNION {{CardsData(socs) : socs \in [1..n -> SocValues \cup {Null}]} :
              n \in 0..CardsMaxLen}

\* Number.prototype.toString of a natural number
RECURSIVE DecimalText(_)
DecimalText(n) ==
    IF n < 10 THEN <<DigitChars[n + 1]>>
    ELSE DecimalText(n \div 10) \o <<DigitChars[(n % 10) + 1]>>

\* Number.prototype.toFixed(2) of a natural number
toFixed2(n) ==
    DecimalText(n) \o <<".","0","0">>

\* data.find(item => item.soc !== null) || { soc: null, time: '' }; the time 0
\* stands for ''
latestActualData(data_) ==
    IF \E i \in 1..Len(data_) : data_[i].soc # Null
    THEN data_[CHOOSE i \in 1..Len(data_) :
                   /\ data_[i].soc # Null
                   /\ \A j \in 1..(i - 1) : data_[j].soc = Null]
    ELSE [time |-> 0, soc |-> Null]

formatPercentage(value) ==
    IF value # Null THEN toFixed2(value) ELSE <<"N","/","A">>

\* what the State of Charge card shows before the percent sign
StateOfCharge(data_) ==
    formatPercentage(latestActualData(data_).soc)

InitCards ==
    /\ comp = "cards"
    /\ data \in CardsDataSets
    /\ date = NoDate
    /\ timeRange = DefaultTimeRange
    /\ zoomLevel = 0
    /\ scrollIndex = 0
    /\ maxScrollIndex = 0
    /\ clampedScrollIndex = 0
    /\ effectPending = FALSE
    /\ now = CHOOSE n \in NowChoices : \A m \in NowChoices : n <= m
    /\ intervalSorts = FALSE

Cards_DataArrival ==
    /\ comp = "cards"
    /\ \E ds \in CardsDataSets : data' = ds
    /\ UNCHANGED <<comp, date, timeRange, zoomLevel, scrollIndex, maxScrollIndex,
                   clampedScrollIndex, effectPending, now, intervalSorts>>

CardsNext ==
    \/ Cards_DataArrival

CardsSpec ==
    InitCards /\ [][CardsNext]_vars

(***************************************************************************)
(* What the properties below speak of.                                     *)
(***************************************************************************)
IsChart ==
    comp \in {"v1", "v2"}

\* a render that produced a filtered sequence
Rendered ==
    ~filteredData.threw

\* the maxOffset and clampedOffset the render slices with and hands the range input
UsedMaxOffset ==
    IF comp = "v1" THEN V1_maxScrollIndex ELSE maxScrollIndex

UsedClampedOffset ==
    IF comp = "v1" THEN V1_clampedScrollIndex ELSE clampedScrollIndex

\* C1: in every render of either BatteryChart variant the values used to slice
\* and to drive the range input satisfy maxOffset = max(0, filteredLength - size)
\* and 0 <= clampedOffset <= maxOffset.
C1_WindowInvariant ==
    (IsChart /\ Rendered) =>
        /\ UsedMaxOffset = Max(0, filteredLength - zoomLevel)
        /\ 0 <= UsedClampedOffset
        /\ UsedClampedOffset <= UsedMaxOffset

\* C2: a step that changes the zoom size, the date interval or the data leads to
\* a render whose maxOffset and clampedOffset are already derived from the new
\* size and the new filtered sequence.
C2_DerivedInSameStep ==
    [][LET newFiltered == filteredDataOf(comp', data', date', timeRange', now',
                                         intervalSorts')
           newLength   == Len(newFiltered.rows)
           newMax      == IF comp' = "v1" THEN Max(0, newLength - zoomLevel')
                          ELSE maxScrollIndex'
           newClamped  == IF comp' = "v1" THEN Min(scrollIndex', newMax)
                          ELSE clampedScrollIndex'
       IN  (IsChart /\ (zoomLevel' # zoomLevel \/ date' # date \/ data' # data)
                /\ ~newFiltered.threw)
            => /\ newMax = Max(0, newLength - zoomLevel')
               /\ newClamped = Min(scrollIndex', newMax)]_vars

\* C3: in every render of either BatteryChart variant the window size lies in
\* [MinZoom, filteredLength] and is never 0.
C3_ZoomWithinBounds ==
    (IsChart /\ Rendered) =>
        /\ zoomLevel # 0
        /\ MinZoom <= zoomLevel
        /\ zoomLevel <= filteredLength

(***************************************************************************)
(* The two timestamp formats, read off the text independently of the       *)
(* components' parsers.                                                    *)
(***************************************************************************)
\* Format A: YYYY-MM-DDTHH:mm:ss
IsFormatA(s) ==
    /\ Len(s) = 19
    /\ LET p == split(s, "T")
       IN  /\ Len(p) = 2
           /\ LET dparts == split(p[1], "-")
                  tparts == split(p[2], ":")
              IN  /\ Len(dparts) = 3 /\ Len(tparts) = 3
                  /\ \A i \in 1..3 : AllDigits(dparts[i]) /\ AllDigits(tparts[i])

\* the instant the tokens Mon, DD, HH:mm:ss and Year name; the year is the
\* token at yearAt
TokensInstant(parts, yearAt) ==
    LET tparts == split(parts[4], ":")
    IN  IF /\ \E i \in 1..12 : MonthNames[i] = parts[2]
           /\ AllDigits(parts[3]) /\ Len(parts[3]) <= 2
           /\ Len(tparts) = 3 /\ \A i \in 1..3 : AllDigits(tparts[i])
           /\ AllDigits(parts[yearAt])
        THEN DateAt(Instant(Number(parts[yearAt]),
                            CHOOSE i \in 1..12 : MonthNames[i] = parts[2],
                            Number(parts[3]),
                            Number(tparts[1]), Number(tparts[2]), Number(tparts[3])))
        ELSE InvalidDate

\* Format B as the parser takes it: Weekday Mon DD HH:mm:ss Zone Year
IsFormatBSix(s) ==
    LET parts == split(s, " ")
    IN  Len(parts) = 6 /\ TokensInstant(parts, 6).valid

\* Format B with the five fields Weekday Mon DD HH:mm:ss Year
IsFormatBFive(s) ==
    LET parts == split(s, " ")
    IN  Len(parts) = 5 /\ TokensInstant(parts, 5).valid

\* an ISO date without a time, YYYY-MM-DD, which both charts' parsers take
IsDateOnly(s) ==
    LET dparts == split(s, "-")
    IN  Len(dparts) = 3 /\ \A i \in 1..3 : AllDigits(dparts[i])

IsSupported(s) ==
    IsFormatA(s) \/ IsDateOnly(s) \/ IsFormatBSix(s) \/ IsFormatBFive(s)

\* the instant a supported text names
TextInstant(s) ==
    IF IsFormatA(s)
    THEN LET p == split(s, "T")
             dparts == split(p[1], "-")
             tparts == split(p[2], ":")
         IN  Instant(Number(dparts[1]), Number(dparts[2]), Number(dparts[3]),
                     Number(tparts[1]), Number(tparts[2]), Number(tparts[3]))
    ELSE IF IsDateOnly(s)
    THEN LET dparts == split(s, "-")
         IN  Instant(Number(dparts[1]), Number(dparts[2]), Number(dparts[3]), 0, 0, 0)
    ELSE IF IsFormatBSix(s) THEN TokensInstant(split(s, " "), 6).t
    ELSE TokensInstant(split(s, " "), 5).t

Supported ==
    [i \in TextIds |-> IsSupported(Texts[i])]

InstantOf ==
    [i \in TextIds |-> IF IsSupported(Texts[i]) THEN TextInstant(Texts[i]) ELSE Undefined]

FormatA ==
    [i \in TextIds |-> IsFormatA(Texts[i])]

FormatBSix ==
    [i \in TextIds |-> IsFormatBSix(Texts[i])]

DateOnly ==
    [i \in TextIds |-> IsDateOnly(Texts[i])]

\* the texts the mounted component's parser is written for
Parseable(i) ==
    IF comp = "raw" THEN FormatBSix[i] ELSE FormatA[i] \/ DateOnly[i]

\* a row without its label
Unlabelled(rows) ==
    [i \in 1..Len(rows) |-> [time |-> rows[i].time, soc |-> rows[i].soc]]

\* minutes since midnight
MinuteOfDay(t) ==
    getHours(t) * 60 + getMinutes(t)

TimeBoundsPresent ==
    Len(timeRange.start) > 0 /\ Len(timeRange.end) > 0

BoundMinute(text) ==
    Number(split(text, ":")[1]) * 60 + Number(split(text, ":")[2])

\* the first and the last second of the selected interval, by day arithmetic
SelectedFirst ==
    DayOf(date.from) * SecondsPerDay

SelectedLast ==
    DayOf(IF date.to # Undefined THEN date.to ELSE date.from) * SecondsPerDay
        + SecondsPerDay - 1

InSelectedInterval(item) ==
    /\ Parseable(item.time)
    /\ SelectedFirst <= InstantOf[item.time]
    /\ InstantOf[item.time] <= SelectedLast

ParseableItem(item) ==
    Parseable(item.time)

UnsupportedItem(item) ==
    ~Supported[item.time]

\* what RawBatteryChart's date filter and time-of-day filter give for the
\* current state
Raw_dateFiltered ==
    Raw_dateFilter(data, date, now, intervalSorts)

Raw_timeFiltered ==
    Raw_timeFilter(Raw_dateFiltered, timeRange, now, intervalSorts)

InTimeBounds(item) ==
    /\ Parseable(item.time)
    /\ BoundMinute(timeRange.start) <= MinuteOfDay(InstantOf[item.time])
    /\ MinuteOfDay(InstantOf[item.time]) <= BoundMinute(timeRange.end)

\* C4: with both time-of-day bounds present, RawBatteryChart's time-of-day
\* filter keeps a parseable record exactly when the hour:minute of the record's
\* own instant lies within [start, end], whatever the date interval.
C4_TimeOfDayFilter ==
    (comp = "raw" /\ TimeBoundsPresent) =>
        SelectSeq(Raw_timeFiltered, ParseableItem)
            = SelectSeq(Raw_dateFiltered, InTimeBounds)

\* C5: with a date interval active, the date filter of the second BatteryChart
\* variant and of RawBatteryChart keeps exactly the parseable records whose
\* instant lies between the first second of the from day and the last second of
\* the to day (of the from day when no to is selected); with no interval it
\* keeps every record.
C5_DateFilterExact ==
    /\ comp = "v2" =>
          IF date = NoDate
          THEN Unlabelled(filteredData.rows) = data
          ELSE Unlabelled(filteredData.rows) = SelectSeq(data, InSelectedInterval)
    /\ comp = "raw" =>
          IF date = NoDate
          THEN Raw_dateFiltered = data
          ELSE SelectSeq(Raw_dateFiltered, ParseableItem)
                  = SelectSeq(data, InSelectedInterval)

\* a single date is selected, a record of the following day is dropped and a
\* record of the last second of the selected day is kept
C5_Witness ==
    /\ comp = "v2"
    /\ date.from # Undefined /\ date.to = Undefined
    /\ \E i \in 1..Len(data) :
          /\ Parseable(data[i].time)
          /\ DayOf(InstantOf[data[i].time]) = DayOf(date.from) + 1
          /\ \A j \in 1..filteredLength : filteredData.rows[j].soc # data[i].soc
    /\ \E j \in 1..filteredLength :
          InstantOf[filteredData.rows[j].time] = SelectedLast

\* C6: while a date interval is active, or time-of-day bounds are present, no
\* record whose timestamp matches neither format is in the filter's output.
C6_FailClosed ==
    /\ (comp = "raw" /\ date # NoDate) =>
          Len(SelectSeq(Raw_dateFiltered, UnsupportedItem)) = 0
    /\ (comp = "raw" /\ TimeBoundsPresent) =>
          Len(SelectSeq(Raw_timeFiltered, UnsupportedItem)) = 0
    /\ (IsChart /\ date # NoDate /\ Rendered) =>
          Len(SelectSeq(filteredData.rows, UnsupportedItem)) = 0

\* C7: every record that reaches the labeling of the second BatteryChart variant
\* or of RawBatteryChart with a timestamp that matches neither format has its
\* raw timestamp text as displayTime.
C7_RawLabelOnFailure ==
    (comp \in {"v2", "raw"}) =>
        \A j \in 1..filteredLength :
            UnsupportedItem(filteredData.rows[j]) =>
                filteredData.rows[j].displayTime = Texts[filteredData.rows[j].time]

\* C8: no exception leaves the computation of filteredData in any of the three
\* components, and in both BatteryChart variants every parseable record (in
\* range, when an interval is active) is in the output.
C8_PassCompletes ==
    /\ Rendered
    /\ IsChart =>
          SelectSeq(Unlabelled(filteredData.rows), ParseableItem)
              = IF date = NoDate THEN SelectSeq(data, ParseableItem)
                ELSE SelectSeq(data, InSelectedInterval)

\* C9: for a timestamp that matches neither format parseCustomTimestamp never
\* hands its caller a valid instant.
C9_ParserReportsFailure ==
    comp = "raw" =>
        \A i \in 1..Len(data) :
            UnsupportedItem(data[i]) => ~ParsedCustom[now][data[i].time].valid

\* C10 as claimed: parseCustomTimestamp maps every timestamp in Format A or in
\* Format B (Weekday Mon DD HH:mm:ss Year, with or without a zone token) to the
\* instant the text names.
C10_BothFormatsSameInstant ==
    comp = "raw" =>
        \A i \in 1..Len(data) :
            Supported[data[i].time] =>
                ParsedCustom[now][data[i].time] = DateAt(InstantOf[data[i].time])

\* C10 as amended: parseCustomTimestamp maps every six-token timestamp
\* Weekday Mon DD HH:mm:ss Zone Year to the instant the text names, which is the
\* instant new Date gives the equivalent Format A text: "Wed Jan 3 14:05:00 GMT
\* 2024" and "2024-01-03T14:05:00" give the same instant.
C10_SixTokenSameInstant ==
    comp = "raw" =>
        \A i \in 1..Len(data) :
            /\ FormatBSix[data[i].time] =>
                  ParsedCustom[now][data[i].time] = DateAt(InstantOf[data[i].time])
            /\ data[i].time = IdOf(CusD) =>
                  ParsedCustom[now][data[i].time] = ParsedNewDate[IdOf(IsoE)]

\* a six-token record with an unpadded day has been parsed and labelled 14:05
C10_Witness ==
    /\ comp = "raw"
    /\ \E j \in 1..filteredLength :
          /\ filteredData.rows[j].time = IdOf(CusD)
          /\ filteredData.rows[j].displayTime = <<"1","4",":","0","5">>

(***************************************************************************)
(* Labels.                                                                 *)
(***************************************************************************)
\* the whole days between the first and the last selected date
SelectedSpan ==
    DayOf(IF date.to # Undefined THEN date.to ELSE date.from) - DayOf(date.from)

\* hour:minute, day of month and month as a chart text spells them
TextHourMinute(s) ==
    IF IsDateOnly(s) THEN <<"0","0",":","0","0">> ELSE SubSeq(s, 12, 16)

TextDay(s) ==
    SubSeq(s, 9, 10)

TextMonth(s) ==
    MonthNames[Number(SubSeq(s, 6, 7))]

\* the label the span table gives a chart text
SpanLabel(s) ==
    IF SelectedSpan <= 7 THEN TextHourMinute(s)
    ELSE IF SelectedSpan <= 31 THEN TextDay(s)
    ELSE TextMonth(s)

IntervalActive ==
    date.from # Undefined

\* C11 (as stated): in both chart variants, when a date interval is active,
\* every parseable kept record is labelled by the span in whole days between
\* the interval's first and last date: hour:minute up to 7 days, two-digit day
\* of month from 8 to 31, abbreviated month name above 31.
C11_LabelBySpan ==
    (IsChart /\ Rendered /\ IntervalActive) =>
        \A i \in 1..Len(filteredData.rows) :
            Parseable(filteredData.rows[i].time) =>
                filteredData.rows[i].displayTime
                    = SpanLabel(Texts[filteredData.rows[i].time])

\* C11 (amended): the second variant labels every parseable kept record by the
\* span table; the first variant labels every kept record hour:minute,
\* whatever the span.
C11_SecondVariantLabelBySpan ==
    (IsChart /\ Rendered /\ IntervalActive) =>
        \A i \in 1..Len(filteredData.rows) :
            Parseable(filteredData.rows[i].time) =>
                filteredData.rows[i].displayTime
                    = IF comp = "v2"
                      THEN SpanLabel(Texts[filteredData.rows[i].time])
                      ELSE TextHourMinute(Texts[filteredData.rows[i].time])

\* a 40-day range in the second variant whose kept records are labelled "Jan"
C11_Witness ==
    /\ comp = "v2"
    /\ IntervalActive
    /\ SelectedSpan = 40
    /\ Len(filteredData.rows) = MaxLen
    /\ \A i \in 1..Len(filteredData.rows) :
           filteredData.rows[i].displayTime = MonthNames[1]

\* hour:minute of the instant a supported text names
HourMinuteOf(i) ==
    TwoDigits(MinuteOfDay(InstantOf[i]) \div 60) \o <<":">>
        \o TwoDigits(MinuteOfDay(InstantOf[i]) % 60)

HasTimeMarker(i) ==
    \E k \in 1..Len(Texts[i]) : Texts[i][k] = "T"

\* C12 (as stated): in the second chart variant and in RawBatteryChart, when no
\* date interval is active, a parseable record's label is its hour:minute if
\* the raw text contains "T", and the raw text unchanged otherwise.
C12_MarkerDecidesLabel ==
    (comp \in {"v2", "raw"} /\ Rendered /\ ~IntervalActive) =>
        \A i \in 1..Len(filteredData.rows) :
            Parseable(filteredData.rows[i].time) =>
                filteredData.rows[i].displayTime
                    = IF HasTimeMarker(filteredData.rows[i].time)
                      THEN HourMinuteOf(filteredData.rows[i].time)
                      ELSE Texts[filteredData.rows[i].time]

\* C12 (amended): with no interval active, the second chart variant labels a
\* parseable record hour:minute if its text contains "T" and with the text
\* unchanged otherwise; RawBatteryChart labels every parseable record it keeps
\* hour:minute, whether or not its text contains "T".
C12_MarkerDecidesChartLabel ==
    (comp \in {"v2", "raw"} /\ Rendered /\ ~IntervalActive) =>
        \A i \in 1..Len(filteredData.rows) :
            Parseable(filteredData.rows[i].time) =>
                filteredData.rows[i].displayTime
                    = IF comp = "raw" \/ HasTimeMarker(filteredData.rows[i].time)
                      THEN HourMinuteOf(filteredData.rows[i].time)
                      ELSE Texts[filteredData.rows[i].time]

\* the second variant without interval shows a record with "T" as hour:minute
\* and a date without time as it is
C12_Witness ==
    /\ comp = "v2"
    /\ ~IntervalActive
    /\ \E i, j \in 1..Len(filteredData.rows) :
           /\ Texts[filteredData.rows[i].time] = IsoE
           /\ filteredData.rows[i].displayTime = <<"1","4",":","0","5">>
           /\ Texts[filteredData.rows[j].time] = IsoDateOnly
           /\ filteredData.rows[j].displayTime = IsoDateOnly

(***************************************************************************)
(* The window.                                                             *)
(***************************************************************************)
\* the records the chart draws
VisibleData ==
    IF comp = "v1" THEN V1_visibleData ELSE V2_paginatedData

\* C13: in every render of either BatteryChart variant the visible slice is the
\* contiguous run of the filtered sequence at the indices
\* [clampedOffset, min(clampedOffset + size, filteredLength)), in the same order.
C13_VisibleSlice ==
    (IsChart /\ Rendered) =>
        LET rows    == filteredData.rows
            visible == VisibleData
            first   == UsedClampedOffset
            last    == Min(first + zoomLevel, Len(rows))
        IN  /\ Len(visible) = Max(0, last - first)
            /\ \A k \in 1..Len(visible) : visible[k] = rows[first + k]

\* the whole data shown 30 at a time with the offset 10 short of its length:
\* maxOffset and clampedOffset are 30 short of the length and the slice is the
\* last 30 records
C13_Witness ==
    /\ comp = "v2"
    /\ ~effectPending
    /\ filteredLength = MaxLen
    /\ zoomLevel = 30
    /\ scrollIndex = MaxLen - 10
    /\ maxScrollIndex = MaxLen - 30
    /\ clampedScrollIndex = MaxLen - 30
    /\ LET visible == VisibleData
       IN  /\ Len(visible) = 30
           /\ visible[1].soc = MaxLen - 29
           /\ visible[30].soc = MaxLen

\* the render follows the clamp: every render of the first variant, and the
\* second variant's once its effect has run
Settled ==
    IsChart /\ Rendered /\ (comp = "v2" => ~effectPending)

KeptInOrder ==
    LET out == Unlabelled(filteredData.rows)
    IN  /\ \A k \in 1..Len(out) :
               out[k].soc \in 1..Len(data) /\ out[k] = data[out[k].soc]
        /\ \A k \in 1..(Len(out) - 1) : out[k].soc < out[k + 1].soc

\* the record passes every filter that is active
SatisfiesActiveFilters(item) ==
    /\ IntervalActive => InSelectedInterval(item)
    /\ (comp = "raw" /\ TimeBoundsPresent) => InTimeBounds(item)

NothingDropped ==
    LET out == Unlabelled(filteredData.rows)
    IN  \A i \in 1..Len(data) :
            SatisfiesActiveFilters(data[i]) => \E k \in 1..Len(out) : out[k] = data[i]

\* C15: in the second chart variant and in RawBatteryChart the filtered output
\* is a subsequence of the input in the input's order, without duplicates, and
\* holds every record that satisfies the active date and time-of-day filters.
C15_OrderedSubsequence ==
    (comp \in {"v2", "raw"} /\ Rendered) => (KeptInOrder /\ NothingDropped)

(***************************************************************************)
(* The cards.                                                              *)
(***************************************************************************)
ActualReadings ==
    {i \in 1..Len(data) : data[i].soc # Null}

\* C16: for data ascending by time with at least one record of non-null soc,
\* latestActualData is the record of non-null soc with the greatest time, and
\* the State of Charge card shows its soc; with no such record the card shows
\* "N/A".
C16_LatestActualReading ==
    comp = "cards" =>
        IF ActualReadings # {}
        THEN \E i \in ActualReadings :
                /\ \A j \in ActualReadings :
                       InstantOf[data[j].time] <= InstantOf[data[i].time]
                /\ latestActualData(data) = data[i]
                /\ StateOfCharge(data) = toFixed2(data[i].soc)
        ELSE StateOfCharge(data) = <<"N","/","A">>

(***************************************************************************)
(* The clamp effect.                                                       *)
(***************************************************************************)
\* C17: in the second BatteryChart variant the clamp effect that an event leaves
\* pending runs once: that run leaves its dependencies as they are, is not due
\* again, and ends in the state where maxScrollIndex =
\* max(0, filteredLength - zoomLevel) and clampedScrollIndex =
\* min(scrollIndex, maxScrollIndex); every state with no effect pending is such
\* a state.
C17_EffectSettles ==
    /\ [](V2_Idle =>
            /\ maxScrollIndex = Max(0, filteredLength - zoomLevel)
            /\ clampedScrollIndex = Min(scrollIndex, maxScrollIndex))
    /\ [][LET newFiltered == filteredDataOf(comp', data', date', timeRange', now',
                                            intervalSorts')
              newMax      == Max(0, Len(newFiltered.rows) - zoomLevel')
          IN  (comp = "v2" /\ effectPending) =>
                  /\ ~effectPending'
                  /\ maxScrollIndex' = newMax
                  /\ clampedScrollIndex' = Min(scrollIndex', newMax)
                  /\ data' = data /\ date' = date
                  /\ scrollIndex' = scrollIndex /\ zoomLevel' = zoomLevel]_vars

\* the effect has run after a zoom-out that left the requested offset beyond
\* the last valid one
C17_Witness ==
    /\ V2_Idle
    /\ zoomLevel > DefaultZoom
    /\ filteredLength = MaxLen
    /\ scrollIndex > maxScrollIndex
    /\ clampedScrollIndex = maxScrollIndex

\* C18: in both BatteryChart variants a step that changes the zoom size, the
\* date interval or the data, and the clamp itself, leave scrollIndex as the
\* user set it; so in every settled render clampedOffset is
\* min(scrollIndex, maxOffset) for the current maxOffset, and undoing a change
\* that shrank maxOffset brings back the offset the clamp had cut.
C18_ClampKeepsScrollIndex ==
    /\ [](Settled =>
            UsedClampedOffset = Min(scrollIndex, Max(0, filteredLength - zoomLevel)))
    /\ [][(/\ IsChart
           /\ \/ zoomLevel' # zoomLevel
              \/ date' # date
              \/ data' # data
              \/ maxScrollIndex' # maxScrollIndex
              \/ clampedScrollIndex' # clampedScrollIndex)
              => scrollIndex' = scrollIndex]_vars

\* the first variant under a date filter that left the requested offset beyond
\* the last valid one: the window is clamped, the request is kept
C18_Witness ==
    /\ comp = "v1"
    /\ Rendered
    /\ IntervalActive
    /\ scrollIndex > V1_maxScrollIndex
    /\ V1_clampedScrollIndex = V1_maxScrollIndex
    /\ V1_maxScrollIndex > 0
====
